---- MODULE Spec2Model ----
(***************************************************************************)
(* Model of the visualization decision engine of the data visualization    *)
(* dashboard (src/main.py, class DataVisualizationDashboard).              *)
(*                                                                         *)
(* A pandas Series is described by what the code reads from it: its dtype, *)
(* nunique(), is_monotonic_increasing and len() and, for a datetime        *)
(* column, the number of calendar days from its first to its last value,   *)
(* which is the number of buckets resample('D') makes.  A DataFrame is its *)
(* row count, its ordered column list and one Series per column.           *)
(***************************************************************************)
EXTENDS Integers, Sequences, FiniteSets, TLC

VARIABLES
    data,             \* self.data: a DataFrame, or NoFrame (None)
    dask_data,        \* self.dask_data: a Dask handle, or NoFrame (None)
    columns,          \* self.columns
    numeric_columns,  \* self.numeric_columns
    x_column,         \* self.x_column (tk.StringVar), "" when unset
    y_column,         \* self.y_column (tk.StringVar), "" when unset
    chart_type,       \* self.chart_type (tk.StringVar)
    recommend_label,  \* text of self.recommend_label
    x_values,         \* self.x_combobox['values']
    y_values,         \* self.y_combobox['values']
    pending,          \* update_column_comboboxes callbacks queued by root.after
    ui,               \* position of the UI thread: "idle" or inside a callback
    files,            \* the data files on disk
    call,             \* locals of the last recommend_chart_type call at its return
    sampling_var,     \* self.sampling_var (tk.StringVar): the text of the sampling size entry
    loading,          \* position of the load_file_async thread: "idle" or a line it is about to run
    render,           \* what the generate_chart call of the last step did, NotRendered if it made none
    large_dataset,    \* self.large_dataset
    current_file_path, \* self.current_file_path: the file last processed, NoFile (None)
    loaded,           \* how the last load_file_async ended, NotLoaded before the first
    op,               \* the last dashboard, saved-work or preferences operation and its outcome
    dashboards,       \* the rows of table dashboards of this user, in rowid order
    sqlite_sequence,  \* the largest id table dashboards has ever given out
    current_dashboard, \* self.current_dashboard, NoDashboard (None)
    dashboard_var,    \* self.dashboard_var (tk.StringVar): the name the selector shows
    dashboard_charts  \* self.dashboard_charts: the chart_config of every card, in order

file_state == <<large_dataset, current_file_path, loaded>>

board == <<op, dashboards, sqlite_sequence, current_dashboard, dashboard_var, dashboard_charts>>

vars == <<data, dask_data, columns, numeric_columns, x_column, y_column,
          chart_type, recommend_label, x_values, y_values, pending, ui, files, call,
          sampling_var, loading, render, large_dataset, current_file_path, loaded,
          op, dashboards, sqlite_sequence, current_dashboard, dashboard_var,
          dashboard_charts>>

----------------------------------------------------------------------------
(* Bounds of the model *)

MaxRows == 101
MaxUnique == 21
MaxPending == 1
MaxExcess == 1
MaxDashboards == 2

(* Numbers written in the code *)

PieCategoryLimit_Off == 5 - 1
PieCategoryLimit == 5
BarCategoryLimit == 7
PiePointLimit_Typo == 50 * 10
PiePointLimit == 50
PieOverrideLimit == 100
BoxCardinalityLimit == 5
HistogramUniqueLimit == 20
DaskCutoff == 500000
DaskSampleDivisor == 100

----------------------------------------------------------------------------
(* Values *)

None == -1
Frame(n, cols, ser) == [rows |-> n, columns |-> cols, series |-> ser]
NoFrame == Frame(None, <<>>, <<>>)

ColumnNames == {"a", "b"}
Dtypes == {"int64", "datetime64[ns]", "object"}
ChartTypes == {"bar", "line", "scatter", "histogram", "box", "pie"}

NoSeries ==
    [dtype |-> "", nunique |-> None, is_monotonic_increasing |-> FALSE, len |-> None,
     days |-> None]

Min(m, n) == IF m <= n THEN m ELSE n

Range(s) == {s[i] : i \in DOMAIN s}

(* pandas.api.types predicates on a Series *)
is_numeric_dtype(s) == s.dtype \in {"int64", "float64"}

is_datetime64_any_dtype(s) == s.dtype = "datetime64[ns]"

----------------------------------------------------------------------------
(* The data files on disk, each described by the frame that load_file_async
   and process_loaded_data leave in self.data: dropna(axis=1, how='all') has
   removed every column without a non-null value, so a column that is present
   has at least one row and at least one distinct value, and a file without
   rows is a frame without columns. *)

(* A datetime column of u distinct values in n rows that span the given
   number of days *)
T(u, m, n, days) ==
    [dtype |-> "datetime64[ns]", nunique |-> u, is_monotonic_increasing |-> m, len |-> n,
     days |-> days]

(* A column; a datetime column has one distinct value a day *)
S(d, u, m, n) ==
    IF d = "datetime64[ns]" THEN T(u, m, n, u)
    ELSE [dtype |-> d, nunique |-> u, is_monotonic_increasing |-> m, len |-> n, days |-> None]

(* A one-row column is monotonic; only unsorted object columns are drawn,
   is_monotonic_increasing being read for numeric columns alone. *)
Monotonic(d, n) == IF n <= 1 THEN {TRUE} ELSE IF d = "object" THEN {FALSE} ELSE BOOLEAN

(* Non-numeric columns of every number of distinct values up to MaxUnique *)
WideSeries(n) ==
    UNION {UNION {{S(d, u, m, n) : m \in Monotonic(d, n)} : u \in 1..Min(n, MaxUnique)} :
           d \in {"object", "datetime64[ns]"}}

(* Columns of every dtype, on both sides of the cardinality limit of line 1417 *)
NarrowSeries(n) ==
    {S("int64", n, m, n) : m \in Monotonic("int64", n)}
    \cup {S("object", u, n <= 1, n) :
            u \in {Min(n, BoxCardinalityLimit), Min(n, BoxCardinalityLimit + 1)}}
    \cup {S("datetime64[ns]", Min(n, BoxCardinalityLimit + 1), n <= 1, n)}

(* Row counts on both sides of every limit the code compares a length with *)
NarrowRows ==
    {1, 2, BoxCardinalityLimit + 1, PiePointLimit, PiePointLimit + 1, PieOverrideLimit, MaxRows}

EmptyFrame == Frame(0, <<>>, <<>>)

OneColumnFrame(sa) == Frame(sa.len, <<"a">>, [c \in {"a"} |-> sa])

TwoColumnFrame(sa, sb) == Frame(sa.len, <<"a", "b">>, [a |-> sa, b |-> sb])

(* Row counts on both sides of every limit of rule 2 and of the pie override *)
WideRows ==
    {2, BarCategoryLimit, BarCategoryLimit + 1, MaxUnique, PiePointLimit, PiePointLimit + 1,
     PieOverrideLimit, MaxRows}

(* A non-numeric column of any shape beside an unsorted numeric one *)
WideFrames ==
    UNION {{TwoColumnFrame(sa, S("int64", n, FALSE, n)) : sa \in WideSeries(n)} : n \in WideRows}

NarrowFrames ==
    {EmptyFrame}
    \cup UNION {{OneColumnFrame(sa) : sa \in NarrowSeries(n)} : n \in NarrowRows}
    \cup UNION {{TwoColumnFrame(sa, sb) : sa \in NarrowSeries(n), sb \in NarrowSeries(n)} :
                n \in NarrowRows}

(* The example of the specification, 30 rows of a 4-category column and a
   numeric one, and its neighbour across the pie limit of line 1399 *)
ExampleFrames ==
    {TwoColumnFrame(S("object", u, FALSE, 30), S("int64", 30, FALSE, 30)) :
        u \in {PieCategoryLimit - 1, PieCategoryLimit + 1}}

Frames == WideFrames \cup NarrowFrames \cup ExampleFrames

(* A file with two numeric columns *)
SeedFrame == TwoColumnFrame(S("int64", 3, TRUE, 3), S("int64", 3, FALSE, 3))

(* Parquet files of at least DaskCutoff rows stay behind a Dask handle, of
   which the code reads the length, the columns and their dtypes *)
DaskFrames ==
    {TwoColumnFrame(S(da, None, FALSE, DaskCutoff), S(db, None, FALSE, DaskCutoff)) :
        da \in Dtypes, db \in Dtypes}

(* A file: its extension, the table in it and whether it is over the 100 MB of
   line 1188 *)
File(ext, frame) == [ext |-> ext, frame |-> frame, bytes |-> "small"]

NoFile == File("", NoFrame)

(* The file a frame is read from: read_csv (line 1197) leaves dates as text,
   so a frame with a datetime column comes from an Excel sheet (line 1183) *)
Stored(frame) ==
    File(IF \E c \in Range(frame.columns) : is_datetime64_any_dtype(frame.series[c])
         THEN ".xlsx" ELSE ".csv",
         frame)

(* What the disk can hold: one wide file; the seed file and a narrow file,
   so that a selection made on one file is still set when the other is
   loaded; the example files; the seed file as CSV and as Parquet and a
   large Parquet file *)
IsDisk(fs) ==
    \/ \E n \in WideRows : \E sa \in WideSeries(n) :
          fs = {Stored(TwoColumnFrame(sa, S("int64", n, FALSE, n)))}
    \/ \E f \in NarrowFrames : fs = {File(".csv", SeedFrame), Stored(f)}
    \/ fs = {File(".csv", SeedFrame)} \cup {Stored(f) : f \in ExampleFrames}
    \/ \E dk \in DaskFrames :
          fs = {File(".csv", SeedFrame), File(".parquet", SeedFrame), File(".parquet", dk)}

(* self.dask_data.sample(frac=0.01).compute(): one row in DaskSampleDivisor,
   chosen at random *)
SampleUniques == {0, BoxCardinalityLimit, MaxUnique}

SampleSeries(s) ==
    {S(s.dtype, u, m, s.len \div DaskSampleDivisor) : u \in SampleUniques, m \in BOOLEAN}

Samples(dk) ==
    IF dk = NoFrame THEN {NoFrame}
    ELSE {TwoColumnFrame(sa, sb) :
            sa \in SampleSeries(dk.series["a"]), sb \in SampleSeries(dk.series["b"])}

(* [col for col in self.columns if np.issubdtype(self.dask_data[col].dtype, np.number)] *)
DaskNumericColumns(dk) == SelectSeq(dk.columns, LAMBDA c : dk.series[c].dtype \in {"int64", "float64"})

(* data.select_dtypes(include=['number']).columns.tolist() *)
NumericColumns(d) == SelectSeq(d.columns, LAMBDA c : is_numeric_dtype(d.series[c]))

----------------------------------------------------------------------------
(* recommend_chart_type: the column profile *)

Profile(x_series, y_series) ==
    [x_is_num      |-> is_numeric_dtype(x_series),
     y_is_num      |-> is_numeric_dtype(y_series),
     x_is_date     |-> is_datetime64_any_dtype(x_series),
     x_unique      |-> IF ~is_numeric_dtype(x_series) THEN x_series.nunique ELSE None,
     y_cardinality |-> y_series.nunique,
     total_points  |-> x_series.len,
     x_is_monotonic_increasing |-> x_series.is_monotonic_increasing]

NoProfile ==
    [x_is_num |-> FALSE, y_is_num |-> FALSE, x_is_date |-> FALSE, x_unique |-> None,
     y_cardinality |-> None, total_points |-> None,
     x_is_monotonic_increasing |-> FALSE]

(* The locals recommendation and reason after an assignment; reason is the
   f-string's template and n the value it interpolates.  rule is the rule of
   the cascade and branch the source line of the assignment that decided. *)
Result(rec, reason, n, rule, branch) ==
    [recommendation |-> rec, reason |-> reason, n |-> n,
     rule |-> rule, branch |-> branch, raised |-> "none"]

(* An ordering comparison with None raises TypeError *)
TypeError ==
    [recommendation |-> "bar", reason |-> "", n |-> None,
     rule |-> "none", branch |-> "none", raised |-> "TypeError"]

NoResult ==
    [recommendation |-> "", reason |-> "", n |-> None,
     rule |-> "none", branch |-> "none", raised |-> "none"]

----------------------------------------------------------------------------
(* recommend_chart_type: the if/elif chain, one guard and one body per rule *)

Rule1Guard_Negated(p) == p.x_is_date /\ ~p.y_is_num
Rule1Guard(p) == p.x_is_date /\ p.y_is_num

Rule1(p) == Result("line", "Time series data detected", None, "1", "1394")

Rule2Guard_AnyX(p) == p.y_is_num
Rule2Guard_UpTo20(p) == ~p.x_is_num /\ p.y_is_num /\ p.x_unique <= HistogramUniqueLimit
Rule2Guard(p) == ~p.x_is_num /\ p.y_is_num

Rule2(p) ==
    IF p.x_unique = None THEN TypeError
    ELSE IF p.x_unique <= BarCategoryLimit
         THEN IF p.total_points <= PiePointLimit
              THEN IF p.x_unique <= PieCategoryLimit
                   THEN Result("pie", "{x_unique} categories, good for comparison",
                               p.x_unique, "2", "1399:pie")
                   ELSE Result("bar", "{x_unique} categories, good for comparison",
                               p.x_unique, "2", "1399:bar")
              ELSE Result("bar", "{x_unique} categories (too many points for pie)",
                          p.x_unique, "2", "1402")
         ELSE Result("bar", "Many categories ({x_unique}), best for comparisons",
                     p.x_unique, "2", "1405")

Rule3Guard(p) == p.x_is_num /\ p.y_is_num

Rule3_Swapped(p) ==
    IF ~p.x_is_monotonic_increasing
    THEN Result("line", "Ordered numerical data", None, "3", "1409")
    ELSE Result("scatter", "Two numerical variables, shows correlation", None, "3", "1412")
Rule3(p) ==
    IF p.x_is_monotonic_increasing
    THEN Result("line", "Ordered numerical data", None, "3", "1409")
    ELSE Result("scatter", "Two numerical variables, shows correlation", None, "3", "1412")

Rule4Guard_ManyOnly(p) == p.x_is_num /\ ~p.y_is_num /\ p.y_cardinality > BoxCardinalityLimit
Rule4Guard(p) == p.x_is_num /\ ~p.y_is_num

Rule4(p) == Result("box", "Numerical X with categorical Y", None, "4", "1415")

Rule5Guard(p) == p.y_cardinality <= BoxCardinalityLimit /\ p.x_is_num

Rule5(p) == Result("box", "Limited Y categories, shows distribution", None, "5", "1418")

(* y_is_num and x_unique > 20: the right operand is evaluated only when the
   left one is true, and raises when x_unique is None *)
Rule6Raises(p) == p.y_is_num /\ p.x_unique = None

Rule6Guard(p) == p.y_is_num /\ p.x_unique > HistogramUniqueLimit

Rule6(p) == Result("histogram", "Many unique X values, show distribution", None, "6", "1421")

Rule7_ReusedReason(p) ==
    Result("bar", "Many categories ({x_unique}), best for comparisons", p.x_unique, "7", "1424")
Rule7(p) == Result("bar", "Default recommendation", None, "7", "1424")

(* The cascade with the first two rules in the other order *)
Cascade_Rule2First(p) ==
    IF Rule2Guard(p) THEN Rule2(p)
    ELSE IF Rule1Guard(p) THEN Rule1(p)
    ELSE IF Rule3Guard(p) THEN Rule3(p)
    ELSE IF Rule4Guard(p) THEN Rule4(p)
    ELSE IF Rule5Guard(p) THEN Rule5(p)
    ELSE IF Rule6Raises(p) THEN TypeError
    ELSE IF Rule6Guard(p) THEN Rule6(p)
    ELSE Rule7(p)
Cascade(p) ==
    IF Rule1Guard(p) THEN Rule1(p)
    ELSE IF Rule2Guard(p) THEN Rule2(p)
    ELSE IF Rule3Guard(p) THEN Rule3(p)
    ELSE IF Rule4Guard(p) THEN Rule4(p)
    ELSE IF Rule5Guard(p) THEN Rule5(p)
    ELSE IF Rule6Raises(p) THEN TypeError
    ELSE IF Rule6Guard(p) THEN Rule6(p)
    ELSE Rule7(p)

(* Special overrides, applied one after the other to the cascade's result *)
PieOverride(p, r) ==
    IF r.recommendation = "pie" /\ p.total_points > PieOverrideLimit
    THEN Result("bar", "Too many points for pie chart (use for <100 points)",
                None, "pie override", "1429")
    ELSE r

HistogramOverride(p, r) ==
    IF r.recommendation = "histogram" /\ ~p.y_is_num
    THEN Result("bar", "Histogram requires numerical Y-axis", None, "histogram override", "1433")
    ELSE r

(* Decide with every test of total_points left out *)
Decide_NoPointTest(p) ==
    LET r == Cascade(p)
    IN  IF r.raised = "none" /\ r.rule = "2" /\ p.x_unique <= PieCategoryLimit
        THEN Result("pie", "{x_unique} categories, good for comparison", p.x_unique, "2", "1399:pie")
        ELSE r
Decide(p) ==
    LET r == Cascade(p)
    IN  IF r.raised # "none" THEN r ELSE HistogramOverride(p, PieOverride(p, r))

----------------------------------------------------------------------------
(* recommend_chart_type as a whole: the new chart type, label text and the
   locals of the call, from the state the call reads *)

Label(rec, reason, n) == [recommendation |-> rec, reason |-> reason, n |-> n]

LoadDataLabel == Label("", "Load data for smart recommendations", None)

SelectAxesLabel == Label("", "Select both axes for recommendations", None)

Call(outcome, xs, ys, p, r) ==
    [outcome |-> outcome, x_series |-> xs, y_series |-> ys, p |-> p, r |-> r]

NotCalled == Call("not called", NoSeries, NoSeries, NoProfile, NoResult)

recommend_chart_type_KeyErrorShown(d, dk, sample, x_col, y_col, ct, lbl) ==
    IF d = NoFrame /\ dk = NoFrame
    THEN [chart_type |-> ct, recommend_label |-> LoadDataLabel,
          call |-> Call("no data", NoSeries, NoSeries, NoProfile, NoResult)]
    ELSE LET frame == IF d # NoFrame THEN d ELSE sample IN
         IF x_col = "" \/ y_col = ""
               \/ x_col \notin Range(frame.columns) \/ y_col \notin Range(frame.columns)
    THEN [chart_type |-> ct, recommend_label |-> SelectAxesLabel,
          call |-> Call(IF x_col = "" \/ y_col = "" THEN "no axes" ELSE "KeyError",
                        NoSeries, NoSeries, NoProfile, NoResult)]
    ELSE LET x_series == frame.series[x_col]
             y_series == frame.series[y_col]
             p == Profile(x_series, y_series)
             r == Decide(p)
         IN  [chart_type |-> r.recommendation,
              recommend_label |-> Label(r.recommendation, r.reason, r.n),
              call |-> Call("set", x_series, y_series, p, r)]

recommend_chart_type_EmptyCheck(d, dk, sample, x_col, y_col, ct, lbl) ==
    IF (d = NoFrame /\ dk = NoFrame) \/ d.rows = 0
    THEN [chart_type |-> ct, recommend_label |-> LoadDataLabel,
          call |-> Call("no data", NoSeries, NoSeries, NoProfile, NoResult)]
    ELSE LET frame == IF d # NoFrame THEN d ELSE sample IN
         IF x_col = "" \/ y_col = ""
    THEN [chart_type |-> ct, recommend_label |-> SelectAxesLabel,
          call |-> Call("no axes", NoSeries, NoSeries, NoProfile, NoResult)]
    ELSE IF x_col \notin Range(frame.columns) \/ y_col \notin Range(frame.columns)
    THEN [chart_type |-> ct, recommend_label |-> lbl,
          call |-> Call("KeyError", NoSeries, NoSeries, NoProfile, NoResult)]
    ELSE LET x_series == frame.series[x_col]
             y_series == frame.series[y_col]
             p == Profile(x_series, y_series)
             r == Decide(p)
         IN  [chart_type |-> r.recommendation,
              recommend_label |-> Label(r.recommendation, r.reason, r.n),
              call |-> Call("set", x_series, y_series, p, r)]

recommend_chart_type(d, dk, sample, x_col, y_col, ct, lbl) ==
    IF d = NoFrame /\ dk = NoFrame
    THEN [chart_type |-> ct, recommend_label |-> LoadDataLabel,
          call |-> Call("no data", NoSeries, NoSeries, NoProfile, NoResult)]
    ELSE IF x_col = "" \/ y_col = ""
    THEN [chart_type |-> ct, recommend_label |-> SelectAxesLabel,
          call |-> Call("no axes", NoSeries, NoSeries, NoProfile, NoResult)]
    ELSE LET frame == IF d # NoFrame THEN d ELSE sample IN
         IF x_col \notin Range(frame.columns) \/ y_col \notin Range(frame.columns)
    THEN [chart_type |-> ct, recommend_label |-> lbl,
          call |-> Call("KeyError", NoSeries, NoSeries, NoProfile, NoResult)]
    ELSE LET x_series == frame.series[x_col]
             y_series == frame.series[y_col]
             p == Profile(x_series, y_series)
             r == Decide(p)
         IN  IF r.raised # "none"
             THEN [chart_type |-> ct, recommend_label |-> lbl,
                   call |-> Call(r.raised, x_series, y_series, p, r)]
             ELSE [chart_type |-> r.recommendation,
                   recommend_label |-> Label(r.recommendation, r.reason, r.n),
                   call |-> Call("set", x_series, y_series, p, r)]

----------------------------------------------------------------------------
(* generate_chart: the data handed to the plotter, lines 1470-1513 of
   DataVisualizationDashboard.generate_chart and, word for word the same,
   lines 200-243 of DashboardChartCard.generate_chart *)

BarThreshold_Inclusive == 10000 - 1
BarThreshold == 10000
BarSample == 1000
LineThreshold == 10000
ScatterThreshold == 5000
ScatterSample_AboveThreshold == 5000 + 1000
ScatterSample == 2000
HistogramThreshold == 10000
ManyBins == 50
FewBins == 20
BoxThreshold == 10000
BoxSample == 5000
TopCategories == 10
PieRowLimit == 1000
TopCategoriesLarge == 8
DaskRenderSample == 5000

(* What the code cannot see of a call: whether the installed pandas raises on
   the mean of an object column (2.x) or drops the column (1.x), the summed
   values of the groups of a pie, and whether one of them is negative, which
   the pie plotter refuses *)
Seeds == {1, 3, 6}

Envs == [strict : BOOLEAN, seed : Seeds, negative : BOOLEAN]

(* One environment for each outcome a chart type can tell apart *)
EnvsOf(ct) ==
    {env \in Envs : /\ ct # "line" => env.strict
                    /\ ct # "pie" => (env.seed = 1 /\ ~env.negative)
                    /\ ct = "pie" => (env.strict /\ (env.negative => env.seed = 1))}

(* The summed Y value of each of g groups, in group order *)
GroupTotals(g, seed) == [i \in 1..g |-> [key |-> i, total |-> (i * seed) % 7]]

(* data.sample(k): k rows chosen at random; the columns keep their dtypes *)
Sample(d, k) ==
    Frame(k, d.columns,
          [c \in DOMAIN d.series |->
              [d.series[c] EXCEPT !.len = k, !.nunique = Min(@, k)]])

(* data[y_col] as a frame of one column *)
Column(d, c) == Frame(d.rows, <<c>>, [k \in {c} |-> d.series[c]])

(* The columns resample('D').mean() cannot average *)
Unaveraged(d, x_col) ==
    {c \in Range(d.columns) : c # x_col /\ d.series[c].dtype = "object"}

(* data.set_index(x_col).resample('D').mean().reset_index(): one row for
   every calendar day from the first to the last value of x_col, days
   without a row included; x_col comes first and sorted, the other columns
   hold the daily means *)
Resampled(d, x_col) ==
    LET days == d.series[x_col].days
        kept == SelectSeq(d.columns, LAMBDA c : c # x_col /\ c \notin Unaveraged(d, x_col))
        cols == <<x_col>> \o kept
    IN  Frame(days, cols,
              [c \in Range(cols) |->
                  IF c = x_col THEN T(days, TRUE, days, days)
                  ELSE [dtype |-> "float64", nunique |-> Min(d.series[c].nunique, days),
                        is_monotonic_increasing |-> FALSE, len |-> days, days |-> None]])

(* sort_values(ascending=False) *)
RECURSIVE Insert(_, _)
Insert(v, s) ==
    IF s = <<>> THEN <<v>>
    ELSE IF v.total >= Head(s).total THEN <<v>> \o s
    ELSE <<Head(s)>> \o Insert(v, Tail(s))

RECURSIVE sort_values(_)
sort_values(s) == IF s = <<>> THEN <<>> ELSE Insert(Head(s), sort_values(Tail(s)))

(* head(k) *)
head(s, k) == SubSeq(s, 1, Min(k, Len(s)))

(* The locals of generate_chart when the plotter is called, or when the
   statement before it raised: the frame handed over, how it was made, the
   bins and top_categories in force, the sums of the groups of a pie before
   and after sort_values and head, and the frame the caller's data refers
   to *)
Handed(strategy, frame, d) ==
    [raised |-> "none", strategy |-> strategy, frame |-> frame, rows |-> frame.rows,
     bins |-> None, top_categories |-> None, groups |-> <<>>, pie_data |-> <<>>,
     self_data |-> d]

Raised(e, d) ==
    [raised |-> e, strategy |-> "none", frame |-> NoFrame, rows |-> None,
     bins |-> None, top_categories |-> None, groups |-> <<>>, pie_data |-> <<>>,
     self_data |-> d]

BarData(d) ==
    IF d.rows > BarThreshold THEN Handed("sample", Sample(d, Min(BarSample, d.rows)), d)
    ELSE Handed("none", d, d)

LineData_AtLeast(d, x_col, env) ==
    IF ~(d.rows >= LineThreshold) THEN Handed("none", d, d)
    ELSE IF x_col \notin Range(d.columns) THEN Raised("KeyError", d)
    ELSE IF ~is_datetime64_any_dtype(d.series[x_col]) THEN Handed("none", d, d)
    ELSE IF Unaveraged(d, x_col) # {} /\ env.strict THEN Raised("TypeError", d)
    ELSE Handed("resample", Resampled(d, x_col), d)

LineData_InPlace(d, x_col, env) ==
    IF d.rows > LineThreshold /\ x_col \in Range(d.columns)
          /\ is_datetime64_any_dtype(d.series[x_col])
    THEN Handed("resample", Resampled(d, x_col), Resampled(d, x_col))
    ELSE Handed("none", d, d)

LineData(d, x_col, env) ==
    IF ~(d.rows > LineThreshold) THEN Handed("none", d, d)
    ELSE IF x_col \notin Range(d.columns) THEN Raised("KeyError", d)
    ELSE IF ~is_datetime64_any_dtype(d.series[x_col]) THEN Handed("none", d, d)
    ELSE IF Unaveraged(d, x_col) # {} /\ env.strict THEN Raised("TypeError", d)
    ELSE Handed("resample", Resampled(d, x_col), d)

ScatterData(d) ==
    IF d.rows > ScatterThreshold THEN Handed("sample", Sample(d, Min(ScatterSample, d.rows)), d)
    ELSE Handed("none", d, d)

HistogramData_AtLeast(d, y_col) ==
    IF y_col \notin Range(d.columns) THEN Raised("KeyError", d)
    ELSE [Handed("none", Column(d, y_col), d) EXCEPT
             !.bins = IF d.rows >= HistogramThreshold THEN ManyBins ELSE FewBins]

HistogramData(d, y_col) ==
    IF y_col \notin Range(d.columns) THEN Raised("KeyError", d)
    ELSE [Handed("none", Column(d, y_col), d) EXCEPT
             !.bins = IF d.rows > HistogramThreshold THEN ManyBins ELSE FewBins]

BoxData(d, y_col) ==
    IF d.rows > BoxThreshold
    THEN LET sampled == Sample(d, Min(BoxSample, d.rows))
         IN  IF y_col \notin Range(d.columns) THEN Raised("KeyError", d)
             ELSE Handed("sample", Column(sampled, y_col), d)
    ELSE IF y_col \notin Range(d.columns) THEN Raised("KeyError", d)
    ELSE Handed("none", Column(d, y_col), d)

(* groupby(x_col)[y_col].sum().sort_values(ascending=False).head(top_categories) *)
PieData_NoSort(d, x_col, y_col, env) ==
    IF x_col \notin Range(d.columns) \/ y_col \notin Range(d.columns) THEN Raised("KeyError", d)
    ELSE
    LET top == IF d.rows > PieRowLimit THEN TopCategoriesLarge ELSE TopCategories
        groups == GroupTotals(d.series[x_col].nunique, env.seed)
        pie == head(groups, top)
    IN  [Handed("top", Frame(Len(pie), <<y_col>>, [k \in {y_col} |-> d.series[y_col]]), d)
            EXCEPT !.top_categories = top, !.groups = groups, !.pie_data = pie]

PieData(d, x_col, y_col, env) ==
    IF x_col \notin Range(d.columns) \/ y_col \notin Range(d.columns) THEN Raised("KeyError", d)
    ELSE LET top == IF d.rows > PieRowLimit THEN TopCategoriesLarge ELSE TopCategories
             groups == GroupTotals(d.series[x_col].nunique, env.seed)
             pie == head(sort_values(groups), top)
         IN  [Handed("top", Frame(Len(pie), <<y_col>>, [k \in {y_col} |-> d.series[y_col]]), d)
                 EXCEPT !.top_categories = top, !.groups = groups, !.pie_data = pie]

(* The if/elif chain over chart_type, lines 1470-1513; a chart type that is
   none of the six hands nothing over *)
Reduction(ct, d, x_col, y_col, env) ==
    CASE ct = "bar" -> BarData(d)
      [] ct = "line" -> LineData(d, x_col, env)
      [] ct = "scatter" -> ScatterData(d)
      [] ct = "histogram" -> HistogramData(d, y_col)
      [] ct = "box" -> BoxData(d, y_col)
      [] ct = "pie" -> PieData(d, x_col, y_col, env)
      [] OTHER -> Handed("none", NoFrame, d)

(* Whether the plot call raises on what it is handed: a column it is told
   to read is missing, or Y holds no numbers, or a scatter X is not on a
   number or time axis, or a pie total is negative *)
PlotRaises(ct, r, x_col, y_col, env) ==
    LET f == r.frame
        has(c) == c \in Range(f.columns)
    IN  \/ ct \in {"bar", "line", "scatter"} /\ (~has(x_col) \/ ~has(y_col))
        \/ ct \in {"bar", "line", "scatter"} /\ has(y_col) /\ ~is_numeric_dtype(f.series[y_col])
        \/ ct = "scatter" /\ has(x_col) /\ f.series[x_col].dtype = "object"
        \/ ct \in {"histogram", "box", "pie"} /\ ~is_numeric_dtype(f.series[y_col])
        \/ ct = "pie" /\ env.negative

----------------------------------------------------------------------------
(* generate_chart as a whole *)

Render(by, outcome, message, cleared, logged, ct, x_col, y_col, input, plot) ==
    [by |-> by, outcome |-> outcome, message |-> message, cleared |-> cleared,
     logged |-> logged, chart_type |-> ct, x_col |-> x_col, y_col |-> y_col,
     input |-> input, plot |-> plot]

NoPlot == Handed("none", NoFrame, NoFrame)

NotRendered == Render("none", "not called", "", FALSE, FALSE, "", "", "", NoFrame, NoPlot)

(* self.dask_data.sample(sample_size).compute(), line 1467: the rows of the
   sample, whose number of distinct values is left to chance *)
RenderSamples(dk) ==
    {Frame(Min(DaskRenderSample, dk.rows), dk.columns,
           [c \in DOMAIN dk.series |->
               S(dk.series[c].dtype, u, FALSE, Min(DaskRenderSample, dk.rows))]) :
        u \in SampleUniques}

(* DataVisualizationDashboard.generate_chart, lines 1442-1538.  sample is
   the Dask sample, NoFrame when Dask refuses a row count and raises.  cleared
   is self.figure.clear() of line 1454, logged the INSERT of line 1529. *)
generate_chart_ClearsFirst(d, dk, sample, x_col, y_col, ct, env) ==
    IF d = NoFrame /\ dk = NoFrame
    THEN Render("generate_chart", "no data", "Please load data first", FALSE, FALSE, "",
                x_col, y_col, NoFrame, NoPlot)
    ELSE Render("generate_chart", IF x_col = "" \/ y_col = "" THEN "no axes" ELSE "error",
                "Please select X and Y columns", TRUE, FALSE, "", x_col, y_col, NoFrame, NoPlot)

generate_chart(d, dk, sample, x_col, y_col, ct, env) ==
    IF d = NoFrame /\ dk = NoFrame
    THEN Render("generate_chart", "no data", "Please load data first", FALSE, FALSE, "",
                x_col, y_col, NoFrame, NoPlot)
    ELSE IF x_col = "" \/ y_col = ""
    THEN Render("generate_chart", "no axes", "Please select X and Y columns", FALSE, FALSE, "",
                x_col, y_col, NoFrame, NoPlot)
    ELSE IF d = NoFrame /\ sample = NoFrame
    THEN Render("generate_chart", "error", "Failed to generate chart", TRUE, FALSE, ct,
                x_col, y_col, NoFrame, NoPlot)
    ELSE LET local == IF d # NoFrame THEN d ELSE sample
             r == Reduction(ct, local, x_col, y_col, env)
         IN  IF r.raised # "none" \/ PlotRaises(ct, r, x_col, y_col, env)
             THEN Render("generate_chart", "error", "Failed to generate chart", TRUE, FALSE,
                         ct, x_col, y_col, local, r)
             ELSE Render("generate_chart", "drawn", "", TRUE, TRUE, ct, x_col, y_col, local, r)

(* A chart of a stored dashboard layout *)
ChartConfig(x_col, y_col, ct) == [x_column |-> x_col, y_column |-> y_col, chart_type |-> ct]

(* DashboardChartCard.generate_chart, lines 171-257: the card reads the
   dashboard's self.data and never the Dask handle *)
DashboardChartCard_generate_chart(d, chart_config, env) ==
    IF d = NoFrame
    THEN Render("DashboardChartCard", "no data", "No data available", TRUE, FALSE, "",
                chart_config.x_column, chart_config.y_column, NoFrame, NoPlot)
    ELSE LET ct == chart_config.chart_type
             x_col == chart_config.x_column
             y_col == chart_config.y_column
             r == Reduction(ct, d, x_col, y_col, env)
         IN  IF r.raised # "none" \/ PlotRaises(ct, r, x_col, y_col, env)
             THEN Render("DashboardChartCard", "error", "Error", TRUE, FALSE, ct, x_col, y_col,
                         d, r)
             ELSE Render("DashboardChartCard", "drawn", "", TRUE, FALSE, ct, x_col, y_col,
                         d, r)

(* self.data once a call has returned: the frame the call left it referring
   to, where the call got as far as reading it *)
SelfDataAfter(r, d) == IF d = NoFrame \/ r.input = NoFrame THEN d ELSE r.plot.self_data

----------------------------------------------------------------------------
(* The sampling size entry and the sampling of process_loaded_data *)

DefaultSamplingSize_Double == 2 * 10000

DefaultSamplingSize == 10000

(* Texts the entry can hold *)
SamplingTexts == {"0", "20000", "all", "-1", "510000"}

IsInteger(text) == text \in {"-1", "0", "10000", "20000", "510000"}

int(text) ==
    CASE text = "-1" -> 0 - 1
      [] text = "0" -> 0
      [] text = "10000" -> 10000
      [] text = "20000" -> 20000
      [] text = "510000" -> 510000
      [] OTHER -> None

(* self.data.sample(k) of line 1230 with k below the row count: k rows in
   random order.  A draw tells whether the rows drawn repeat as many values
   of a column as they can and whether they came out in order. *)
Draws == {[repeats |-> b, ordered |-> b] : b \in BOOLEAN}

Subsample(s, n, k, draw) ==
    LET u == IF draw.repeats /\ k > 0 THEN (IF k - (n - s.nunique) > 1 THEN k - (n - s.nunique) ELSE 1)
             ELSE Min(s.nunique, k)
        m == k <= 1 \/ (draw.ordered /\ s.dtype # "object")
    IN  IF is_datetime64_any_dtype(s)
        THEN T(u, m, k, IF k = 0 THEN 0 ELSE IF draw.repeats THEN 1 ELSE s.days)
        ELSE [dtype |-> s.dtype, nunique |-> u, is_monotonic_increasing |-> m, len |-> k,
              days |-> None]

Sampled(d, k) ==
    {Frame(k, d.columns, [c \in DOMAIN d.series |-> Subsample(d.series[c], d.rows, k, draw)]) :
        draw \in Draws}

(* The chunked read of a CSV file over 100 MB, lines 1188-1195: chunks of
   ChunkSize rows are appended until there are more than MaxChunks *)
ChunkSize == 10000
MaxChunks == 50

FirstRows(d, k) ==
    Frame(k, d.columns,
          [c \in DOMAIN d.series |-> [d.series[c] EXCEPT !.len = k, !.nunique = Min(@, k)]])

Read_Whole(file) == file.frame

(* The frame the read statements of lines 1170-1200 make of a file *)
Read(file) ==
    IF file.ext = ".csv" /\ file.bytes = "large"
          /\ file.frame.rows > (MaxChunks + 1) * ChunkSize
    THEN FirstRows(file.frame, (MaxChunks + 1) * ChunkSize)
    ELSE file.frame

(* How a load_file_async ended, the file and the rows read from it *)
Loaded(outcome, file, rows) == [outcome |-> outcome, file |-> file, rows |-> rows]

NotLoaded == Loaded("none", NoFile, None)

(* A dashboard, a row of table dashboards or self.current_dashboard *)
Dashboard(id, name, layout) == [id |-> id, name |-> name, layout |-> layout]

NoDashboard == Dashboard(None, "", <<>>)

(* An operation and what it was given *)
Op(name, outcome, arg) == [name |-> name, outcome |-> outcome, arg |-> arg]

NoOp == Op("none", "", "")

----------------------------------------------------------------------------
(* Initial state: DataVisualizationDashboard.__init__ and create_sidebar *)

(* A row of table user_preferences (lines 36-45) or of table saved_work
   (lines 47-59): the file, the selections and the chart type that were saved *)
Saved(file_path, x_col, y_col, ct) ==
    [file_path |-> file_path, x_column |-> x_col, y_column |-> y_col, chart_type |-> ct]

NoPreferences == Saved(NoFile, "", "", "")

(* load_preferences, lines 1054-1093, the last statement of __init__: the
   chart type of the row is set; load_file_from_path (line 1080) is defined
   nowhere, so a row whose file exists raises AttributeError, which line 1092
   prints: nothing is loaded, no column is selected, no chart is generated. *)
load_preferences(prefs, disk) ==
    /\ chart_type = IF prefs = NoPreferences THEN "bar" ELSE prefs.chart_type
    /\ op = IF prefs = NoPreferences THEN NoOp
            ELSE Op("load_preferences",
                    IF prefs.file_path \in disk THEN "AttributeError" ELSE "File Not Found",
                    prefs)

Constructed ==
    /\ data = NoFrame
    /\ dask_data = NoFrame
    /\ columns = <<>>
    /\ numeric_columns = <<>>
    /\ x_column = ""
    /\ y_column = ""
    /\ recommend_label = LoadDataLabel
    /\ x_values = <<>>
    /\ y_values = <<>>
    /\ pending = 0
    /\ ui = "idle"
    /\ call = NotCalled
    /\ sampling_var = "10000"
    /\ loading = "idle"
    /\ render = NotRendered
    /\ large_dataset = FALSE
    /\ current_file_path = NoFile
    /\ loaded = NotLoaded

(* A user without preferences *)
FreshWindow ==
    /\ Constructed
    /\ chart_type = "bar"

(* create_dashboard_tab ends with load_dashboards_list, line 640: of the
   dashboards the database holds, the first is selected, loaded and rendered,
   with no data to draw *)
LoadedDashboards(table) ==
    /\ dashboards = table
    /\ sqlite_sequence = Len(table)
    /\ current_dashboard = IF table = <<>> THEN NoDashboard ELSE table[1]
    /\ dashboard_var = IF table = <<>> THEN "" ELSE table[1].name
    /\ dashboard_charts = IF table = <<>> THEN <<>> ELSE table[1].layout

StoredDashboards(table) ==
    /\ op = IF table = <<>> THEN NoOp ELSE Op("load_dashboard", "ok", table[1].name)
    /\ LoadedDashboards(table)

(* A new user: no dashboards, no preferences *)
Fresh == FreshWindow /\ StoredDashboards(<<>>)

Init ==
    /\ Fresh
    /\ IsDisk(files)

----------------------------------------------------------------------------
(* Operations *)

(* load_file_async(file_path) up to line 1207, and its except and finally
   clauses when a statement raises: the sampling size is read from the entry;
   the file is read into self.data or, a large Parquet file, left behind
   self.dask_data; process_loaded_data samples a frame of more rows than the
   sampling size, sets large_dataset, extracts the column lists, queues
   update_column_comboboxes, stores the path and, for a pandas frame, calls
   recommend_chart_type with the selections as they stand.
   self.sampling_size is written at line 1157 or 1159 before line 1228 reads
   it and is read nowhere else.  A file that cannot be read raises before
   anything is assigned.  DataFrame.sample raises ValueError on a negative
   size, after self.data has been assigned and before anything else is. *)
load_file_async_thread(file) ==
    /\ sampling_var' = IF IsInteger(sampling_var) THEN sampling_var ELSE "10000"
    /\ LET f == Read(file)
           sampling_size == IF IsInteger(sampling_var) THEN int(sampling_var)
                            ELSE DefaultSamplingSize
           parquet == file.ext = ".parquet"
           large == parquet /\ ~(f.rows < DaskCutoff)
           dk == IF parquet THEN (IF large THEN f ELSE NoFrame) ELSE dask_data
       IN  IF file.bytes = "unreadable"
           THEN /\ loaded' = Loaded("read error", file, None)
                /\ loading' = "idle"
                /\ UNCHANGED <<data, dask_data, columns, numeric_columns, chart_type,
                               recommend_label, call, pending, large_dataset,
                               current_file_path>>
           ELSE IF ~large /\ f.rows > sampling_size /\ sampling_size < 0
           THEN /\ data' = f
                /\ dask_data' = dk
                /\ loaded' = Loaded("ValueError", file, f.rows)
                /\ loading' = "idle"
                /\ UNCHANGED <<columns, numeric_columns, chart_type, recommend_label, call,
                               pending, large_dataset, current_file_path>>
           ELSE /\ dask_data' = dk
                /\ IF ~large
                   THEN \E d \in (IF f.rows > sampling_size THEN Sampled(f, sampling_size)
                                  ELSE {f}) :
                        /\ data' = d
                        /\ large_dataset' = (f.rows > sampling_size)
                        /\ columns' = d.columns
                        /\ numeric_columns' = NumericColumns(d)
                        /\ LET e == recommend_chart_type(d, dk, NoFrame, x_column, y_column,
                                                         chart_type, recommend_label)
                           IN  /\ chart_type' = e.chart_type
                               /\ recommend_label' = e.recommend_label
                               /\ call' = e.call
                   ELSE /\ data' = NoFrame
                        /\ large_dataset' = TRUE
                        /\ columns' = dk.columns
                        /\ numeric_columns' = DaskNumericColumns(dk)
                        /\ UNCHANGED <<chart_type, recommend_label, call>>
                /\ current_file_path' = file
                /\ loaded' = Loaded("ok", file, f.rows)
                /\ pending' = pending + 1
                /\ loading' = "generate_chart:1210"
    /\ render' = NotRendered

(* load_file, lines 1138-1148: the user picks a file and the thread runs.  The
   loading screen holds the input grab (line 99) from here until the thread
   closes it at line 1215. *)
load_file_async(file) ==
    /\ file \in files
    /\ pending < MaxPending
    /\ loading = "idle"
    /\ load_file_async_thread(file)
    /\ UNCHANGED board
    /\ UNCHANGED <<x_column, y_column, x_values, y_values, ui, files>>

(* The thread's call of generate_chart, line 1210, and its end *)
load_file_async_generate_chart ==
    /\ loading = "generate_chart:1210"
    /\ loading' = "idle"
    /\ \E env \in EnvsOf(chart_type) :
       \E sample \in (IF data # NoFrame \/ dask_data = NoFrame THEN {NoFrame}
                      ELSE RenderSamples(dask_data) \cup {NoFrame}) :
          LET r == generate_chart(data, dask_data, sample, x_column, y_column, chart_type, env)
          IN  render' = r /\ data' = SelfDataAfter(r, data)
    /\ UNCHANGED <<file_state, board>>
    /\ UNCHANGED <<dask_data, columns, numeric_columns, x_column, y_column, chart_type,
                   recommend_label, x_values, y_values, pending, ui, files, call,
                   sampling_var>>

(* update_column_comboboxes, lines 1303-1307: the combobox lists, then
   x_column.set, whose write trace calls recommend_chart_type *)
update_column_comboboxes_x ==
    /\ ui = "idle"
    /\ pending > 0
    /\ pending' = pending - 1
    /\ x_values' = columns
    /\ y_values' = numeric_columns
    /\ ui' = "update_column_comboboxes:1308"
    /\ IF columns # <<>>
       THEN \E sample \in Samples(dask_data) :
            LET e == recommend_chart_type(data, dask_data, sample, columns[1], y_column,
                                          chart_type, recommend_label)
            IN  /\ x_column' = columns[1]
                /\ chart_type' = e.chart_type
                /\ recommend_label' = e.recommend_label
                /\ call' = e.call
       ELSE UNCHANGED <<x_column, chart_type, recommend_label, call>>
    /\ render' = NotRendered
    /\ UNCHANGED <<file_state, board>>
    /\ UNCHANGED <<data, dask_data, columns, numeric_columns, y_column, files,
                   sampling_var, loading>>

(* update_column_comboboxes, lines 1308-1309 *)
update_column_comboboxes_y ==
    /\ ui = "update_column_comboboxes:1308"
    /\ ui' = "idle"
    /\ IF numeric_columns # <<>>
       THEN \E sample \in Samples(dask_data) :
            LET e == recommend_chart_type(data, dask_data, sample, x_column, numeric_columns[1],
                                          chart_type, recommend_label)
            IN  /\ y_column' = numeric_columns[1]
                /\ chart_type' = e.chart_type
                /\ recommend_label' = e.recommend_label
                /\ call' = e.call
       ELSE UNCHANGED <<y_column, chart_type, recommend_label, call>>
    /\ render' = NotRendered
    /\ UNCHANGED <<file_state, board>>
    /\ UNCHANGED <<data, dask_data, columns, numeric_columns, x_column,
                   x_values, y_values, pending, files, sampling_var, loading>>

(* The user picks an entry of the X combobox: the write trace of line 795 *)
select_x(c) ==
    /\ ui = "idle"
    /\ loading = "idle"
    /\ c \in Range(x_values)
    /\ x_column' = c
    /\ \E sample \in Samples(dask_data) :
       LET e == recommend_chart_type(data, dask_data, sample, c, y_column,
                                     chart_type, recommend_label)
       IN  /\ chart_type' = e.chart_type
           /\ recommend_label' = e.recommend_label
           /\ call' = e.call
    /\ render' = NotRendered
    /\ UNCHANGED <<file_state, board>>
    /\ UNCHANGED <<data, dask_data, columns, numeric_columns, y_column,
                   x_values, y_values, pending, ui, files, sampling_var, loading>>

(* The user picks an entry of the Y combobox: the write trace of line 796 *)
select_y(c) ==
    /\ ui = "idle"
    /\ loading = "idle"
    /\ c \in Range(y_values)
    /\ y_column' = c
    /\ \E sample \in Samples(dask_data) :
       LET e == recommend_chart_type(data, dask_data, sample, x_column, c,
                                     chart_type, recommend_label)
       IN  /\ chart_type' = e.chart_type
           /\ recommend_label' = e.recommend_label
           /\ call' = e.call
    /\ render' = NotRendered
    /\ UNCHANGED <<file_state, board>>
    /\ UNCHANGED <<data, dask_data, columns, numeric_columns, x_column,
                   x_values, y_values, pending, ui, files, sampling_var, loading>>

(* clear_data: both x_column.set("") and y_column.set("") run
   recommend_chart_type on the cleared state *)
clear_data ==
    /\ ui = "idle"
    /\ loading = "idle"
    /\ data' = NoFrame
    /\ dask_data' = NoFrame
    /\ columns' = <<>>
    /\ numeric_columns' = <<>>
    /\ x_values' = <<>>
    /\ y_values' = <<>>
    /\ x_column' = ""
    /\ y_column' = ""
    /\ LET e == recommend_chart_type(NoFrame, NoFrame, NoFrame, "", "", chart_type, recommend_label)
       IN  /\ chart_type' = e.chart_type
           /\ recommend_label' = e.recommend_label
           /\ call' = e.call
    /\ render' = NotRendered
    /\ large_dataset' = FALSE
    /\ current_file_path' = NoFile
    /\ loaded' = NotLoaded
    /\ UNCHANGED board
    /\ UNCHANGED <<pending, ui, files, sampling_var, loading>>

(* The Generate Chart button, line 770 *)
generate_chart_button ==
    /\ ui = "idle"
    /\ loading = "idle"
    /\ \E env \in EnvsOf(chart_type) :
       \E sample \in (IF data # NoFrame \/ dask_data = NoFrame THEN {NoFrame}
                      ELSE RenderSamples(dask_data) \cup {NoFrame}) :
          LET r == generate_chart(data, dask_data, sample, x_column, y_column, chart_type, env)
          IN  render' = r /\ data' = SelfDataAfter(r, data)
    /\ UNCHANGED <<file_state, board>>
    /\ UNCHANGED <<dask_data, columns, numeric_columns, x_column, y_column, chart_type,
                   recommend_label, x_values, y_values, pending, ui, files, call,
                   sampling_var, loading>>

(* The user picks a chart type radio button, lines 712-715 *)
select_chart_type(ct) ==
    /\ ui = "idle"
    /\ loading = "idle"
    /\ ct \in ChartTypes
    /\ chart_type' = ct
    /\ render' = NotRendered
    /\ UNCHANGED <<file_state, board>>
    /\ UNCHANGED <<data, dask_data, columns, numeric_columns, x_column, y_column,
                   recommend_label, x_values, y_values, pending, ui, files, call,
                   sampling_var, loading>>

(* The user types into the sampling size entry, lines 681-684 *)
set_sampling_var(text) ==
    /\ ui = "idle"
    /\ loading = "idle"
    /\ text \in SamplingTexts
    /\ sampling_var' = text
    /\ render' = NotRendered
    /\ UNCHANGED <<file_state, board>>
    /\ UNCHANGED <<data, dask_data, columns, numeric_columns, x_column, y_column, chart_type,
                   recommend_label, x_values, y_values, pending, ui, files, call,
                   loading>>

(* load_selected_work, lines 1655-1676, on the row the user picked in the
   dialog: the chart type is set and, the file being there, the thread of
   load_file_async is started; the handler still has lines 1679-1680 to run. *)
load_selected_work(work) ==
    /\ ui = "idle"
    /\ loading = "idle"
    /\ pending < MaxPending
    /\ chart_type' = work.chart_type
    /\ IF work.file_path \in files
       THEN /\ op' = Op("load_selected_work", "started", work)
            /\ loading' = "load_file_async:1150"
            /\ ui' = "load_selected_work:1679"
       ELSE /\ op' = Op("load_selected_work", "File Not Found", work)
            /\ UNCHANGED <<loading, ui>>
    /\ render' = NotRendered
    /\ UNCHANGED <<dashboards, sqlite_sequence, current_dashboard, dashboard_var,
                   dashboard_charts, file_state>>
    /\ UNCHANGED <<data, dask_data, columns, numeric_columns, x_column, y_column,
                   recommend_label, x_values, y_values, pending, files, call, sampling_var>>

(* The thread started at line 1676 *)
load_selected_work_thread ==
    /\ loading = "load_file_async:1150"
    /\ load_file_async_thread(op.arg.file_path)
    /\ UNCHANGED board
    /\ UNCHANGED <<x_column, y_column, x_values, y_values, ui, files>>

(* self.x_column.set(x_col), line 1679, and its write trace *)
load_selected_work_x ==
    /\ ui = "load_selected_work:1679"
    /\ ui' = "load_selected_work:1680"
    /\ x_column' = op.arg.x_column
    /\ \E sample \in Samples(dask_data) :
       LET e == recommend_chart_type(data, dask_data, sample, op.arg.x_column, y_column,
                                     chart_type, recommend_label)
       IN  /\ chart_type' = e.chart_type
           /\ recommend_label' = e.recommend_label
           /\ call' = e.call
    /\ render' = NotRendered
    /\ UNCHANGED <<file_state, board>>
    /\ UNCHANGED <<data, dask_data, columns, numeric_columns, y_column,
                   x_values, y_values, pending, files, sampling_var, loading>>

(* self.y_column.set(y_col), line 1680, and its write trace; the handler
   returns *)
load_selected_work_y ==
    /\ ui = "load_selected_work:1680"
    /\ ui' = "idle"
    /\ y_column' = op.arg.y_column
    /\ \E sample \in Samples(dask_data) :
       LET e == recommend_chart_type(data, dask_data, sample, x_column, op.arg.y_column,
                                     chart_type, recommend_label)
       IN  /\ chart_type' = e.chart_type
           /\ recommend_label' = e.recommend_label
           /\ call' = e.call
    /\ render' = NotRendered
    /\ UNCHANGED <<file_state, board>>
    /\ UNCHANGED <<data, dask_data, columns, numeric_columns, x_column,
                   x_values, y_values, pending, files, sampling_var, loading>>

----------------------------------------------------------------------------
(* Dashboards *)

(* The names a dashboard is given *)
Names == {"A", "B"}

(* SELECT ... WHERE name=? and fetchone(), lines 899-901: the first row of
   that name *)
Found(table, name) == \E i \in DOMAIN table : table[i].name = name

FirstNamed(table, name) ==
    table[CHOOSE i \in DOMAIN table :
             table[i].name = name /\ \A j \in 1..(i - 1) : table[j].name # name]

(* load_dashboard, lines 890-914, for the name the selector holds: the
   current dashboard afterwards and whether render_dashboard was called *)
load_dashboard(table, name, current) ==
    IF name # "" /\ Found(table, name)
    THEN [current |-> FirstNamed(table, name), rendered |-> TRUE]
    ELSE [current |-> current, rendered |-> FALSE]

(* load_dashboards_list, lines 800-818: the selector is set to the first
   dashboard of the table and that dashboard is loaded *)
load_dashboards_list(table, var, current) ==
    IF table # <<>>
    THEN [var |-> table[1].name,
          current |-> load_dashboard(table, table[1].name, current).current,
          rendered |-> TRUE]
    ELSE [var |-> var, current |-> current, rendered |-> FALSE]

(* render_dashboard, lines 938-975: clear_dashboard, then a card for each
   chart_config of the layout; each card draws itself (lines 168-169), and
   render keeps one of these calls.  Not called: nothing is drawn. *)
render_dashboard(rendered, layout) ==
    IF rendered /\ layout # <<>>
    THEN /\ dashboard_charts' = layout
         /\ \E i \in DOMAIN layout : \E env \in EnvsOf(layout[i].chart_type) :
               LET r == DashboardChartCard_generate_chart(data, layout[i], env)
               IN  render' = r /\ data' = SelfDataAfter(r, data)
    ELSE /\ dashboard_charts' = IF rendered THEN <<>> ELSE dashboard_charts
         /\ render' = NotRendered
         /\ data' = data

window == <<dask_data, columns, numeric_columns, x_column, y_column, chart_type,
            recommend_label, x_values, y_values, pending, ui, files, call, sampling_var,
            loading>>

(* The user picks a dashboard in the selector: <<ComboboxSelected>>, line 589 *)
select_dashboard(name) ==
    /\ ui = "idle"
    /\ loading = "idle"
    /\ Found(dashboards, name)
    /\ dashboard_var' = name
    /\ LET l == load_dashboard(dashboards, name, current_dashboard)
       IN  /\ current_dashboard' = l.current
           /\ render_dashboard(l.rendered, l.current.layout)
    /\ op' = Op("load_dashboard", "ok", name)
    /\ UNCHANGED <<dashboards, sqlite_sequence, file_state, window>>

(* create_new_dashboard, lines 820-839, with the name typed into the dialog *)
create_new_dashboard(name) ==
    /\ ui = "idle"
    /\ loading = "idle"
    /\ name \in Names
    /\ sqlite_sequence < MaxDashboards
    /\ LET table == Append(dashboards, Dashboard(sqlite_sequence + 1, name, <<>>))
           l == load_dashboards_list(table, dashboard_var, current_dashboard)
       IN  /\ dashboards' = table
           /\ sqlite_sequence' = sqlite_sequence + 1
           /\ current_dashboard' = l.current
           /\ render_dashboard(l.rendered, l.current.layout)
    /\ dashboard_var' = name
    /\ op' = Op("create_new_dashboard", "ok", name)
    /\ UNCHANGED <<file_state, window>>

(* rename_dashboard, lines 841-864 *)
rename_dashboard(new_name) ==
    /\ ui = "idle"
    /\ loading = "idle"
    /\ new_name \in Names
    /\ IF current_dashboard = NoDashboard
       THEN /\ op' = Op("rename_dashboard", "No dashboard selected", new_name)
            /\ render' = NotRendered
            /\ UNCHANGED <<data, dashboards, current_dashboard, dashboard_var, dashboard_charts>>
       ELSE LET table == [i \in DOMAIN dashboards |->
                             IF dashboards[i].id = current_dashboard.id
                             THEN [dashboards[i] EXCEPT !.name = new_name]
                             ELSE dashboards[i]]
                l == load_dashboards_list(table, dashboard_var, current_dashboard)
            IN  /\ dashboards' = table
                /\ current_dashboard' = l.current
                /\ render_dashboard(l.rendered, l.current.layout)
                /\ dashboard_var' = new_name
                /\ op' = Op("rename_dashboard", "ok", new_name)
    /\ UNCHANGED <<sqlite_sequence, file_state, window>>

(* delete_dashboard, lines 866-888, the confirmation answered yes *)
delete_dashboard ==
    /\ ui = "idle"
    /\ loading = "idle"
    /\ IF current_dashboard = NoDashboard
       THEN /\ op' = Op("delete_dashboard", "No dashboard selected", "")
            /\ render' = NotRendered
            /\ UNCHANGED <<data, dashboards, current_dashboard, dashboard_var, dashboard_charts>>
       ELSE LET table == SelectSeq(dashboards, LAMBDA row : row.id # current_dashboard.id)
                l == load_dashboards_list(table, dashboard_var, NoDashboard)
            IN  /\ dashboards' = table
                /\ current_dashboard' = l.current
                /\ dashboard_var' = l.var
                /\ render_dashboard(TRUE, l.current.layout)
                /\ op' = Op("delete_dashboard", "ok", current_dashboard.name)
    /\ UNCHANGED <<sqlite_sequence, file_state, window>>

(* add_chart_to_dashboard, lines 983-1010.  Line 989 is `if not self.data:`:
   None is falsy and gives the warning; the truth value of a DataFrame raises
   ValueError, whatever the frame holds.  Lines 993-1010, which build the
   chart_config, append it and save, are reached with no value of self.data. *)
add_chart_to_dashboard ==
    /\ ui = "idle"
    /\ loading = "idle"
    /\ op' = Op("add_chart_to_dashboard",
                IF current_dashboard = NoDashboard
                THEN "Please select or create a dashboard first"
                ELSE IF data = NoFrame THEN "Please load data first"
                ELSE "ValueError",
                [chart_config |-> ChartConfig(x_column, y_column, chart_type),
                 dashboard |-> current_dashboard, data |-> data # NoFrame])
    /\ render' = NotRendered
    /\ UNCHANGED <<data, dashboards, sqlite_sequence, current_dashboard, dashboard_var,
                   dashboard_charts, file_state, window>>

(* remove_chart(chart_card), lines 1037-1050, for the i-th card: every
   chart_config equal to the card's is filtered out of the layout, the
   dashboard is rendered again and save_dashboard (lines 916-936) stores the
   chart_config of the cards that are left *)
remove_chart(i) ==
    /\ ui = "idle"
    /\ loading = "idle"
    /\ i \in DOMAIN dashboard_charts
    /\ current_dashboard # NoDashboard
    /\ LET layout == SelectSeq(current_dashboard.layout,
                               LAMBDA config : config # dashboard_charts[i])
       IN  /\ current_dashboard' = [current_dashboard EXCEPT !.layout = layout]
           /\ render_dashboard(TRUE, layout)
           /\ dashboards' = [j \in DOMAIN dashboards |->
                                IF dashboards[j].id = current_dashboard.id
                                THEN [dashboards[j] EXCEPT !.layout = layout]
                                ELSE dashboards[j]]
    /\ op' = Op("remove_chart", "ok",
                [chart_config |-> dashboard_charts[i], dashboard |-> current_dashboard,
                 data |-> data # NoFrame])
    /\ UNCHANGED <<sqlite_sequence, dashboard_var, file_state, window>>

Next ==
    \/ \E file \in files : load_file_async(file)
    \/ load_file_async_generate_chart
    \/ update_column_comboboxes_x
    \/ update_column_comboboxes_y
    \/ \E c \in ColumnNames : select_x(c)
    \/ \E c \in ColumnNames : select_y(c)
    \/ clear_data

Spec == Init /\ [][Next]_vars

----------------------------------------------------------------------------
(* The same application on files whose sizes lie on both sides of every limit
   of generate_chart, with the chart type, the sampling size and the Generate
   Chart button in the user's hands and a dashboard layout in the database *)

(* Row counts on both sides of the limits of lines 1472, 1487 and 1510 *)
RenderRows ==
    {PieRowLimit, PieRowLimit + 1, ScatterThreshold, ScatterThreshold + 1,
     BarThreshold, BarThreshold + MaxExcess}

(* The X columns of a file of n rows.  Around the pie limit: a category
   column of more groups than a large pie keeps and one of more than any pie
   keeps.  Around the scatter limit: a category column.  Around the other
   limits: a category column, a datetime column whose rows span fewer days
   than there are rows and one whose rows span more.  The Y column, numeric,
   can be chosen as X. *)
RenderSeries(n) ==
    IF n <= PieRowLimit + 1
    THEN {S("object", u, FALSE, n) : u \in {TopCategoriesLarge + 1, TopCategories + 1}}
    ELSE IF n <= ScatterThreshold + 1
    THEN {S("object", TopCategoriesLarge + 1, FALSE, n)}
    ELSE {S("object", TopCategoriesLarge + 1, FALSE, n)}
         \cup {T(MaxUnique, TRUE, n, days) : days \in {n \div 2, n + MaxExcess}}

RenderFrames ==
    UNION {{TwoColumnFrame(sa, S("int64", MaxUnique, FALSE, n)) : sa \in RenderSeries(n)} :
           n \in RenderRows}

(* The layout of the user's dashboard: a chart of each type for such a file,
   and one of a column the file lacks *)
StoredLayout ==
    <<ChartConfig("a", "b", "bar"), ChartConfig("a", "b", "line"),
      ChartConfig("a", "b", "scatter"), ChartConfig("a", "b", "histogram"),
      ChartConfig("a", "b", "box"), ChartConfig("a", "b", "pie"),
      ChartConfig("c", "b", "line")>>

ChartConfigs == Range(StoredLayout)

RenderInit ==
    /\ FreshWindow
    /\ StoredDashboards(<<Dashboard(1, "A", StoredLayout)>>)
    /\ \/ \E f \in RenderFrames : files = {Stored(f)}
       \/ files = {File(".csv", SeedFrame), File(".csv", EmptyFrame)}

(* The sampling sizes tried on these files: none and one above every row
   count *)
RenderNext ==
    \/ Next
    \/ generate_chart_button
    \/ \E ct \in ChartTypes : select_chart_type(ct)
    \/ \E text \in {"0", "20000"} : set_sampling_var(text)
    \/ \E name \in Names : select_dashboard(name)

RenderSpec == RenderInit /\ [][RenderNext]_vars

----------------------------------------------------------------------------
(* The dashboards of a user who loads the seed file, with table dashboards as
   earlier sessions and versions of the program left it *)

(* An empty table; one dashboard that holds the same chart twice; two
   dashboards *)
StoredTables ==
    {<<>>,
     <<Dashboard(1, "A", <<ChartConfig("a", "b", "bar"), ChartConfig("a", "b", "bar"),
                           ChartConfig("a", "b", "line")>>)>>,
     <<Dashboard(1, "A", <<ChartConfig("a", "b", "bar"), ChartConfig("a", "b", "line")>>),
       Dashboard(2, "B", <<>>)>>}

DashInit ==
    /\ FreshWindow
    /\ files = {File(".csv", SeedFrame)}
    /\ \E table \in StoredTables : StoredDashboards(table)

DashNext ==
    \/ \E file \in files : load_file_async(file)
    \/ load_file_async_generate_chart
    \/ update_column_comboboxes_x
    \/ update_column_comboboxes_y
    \/ \E name \in Names : select_dashboard(name)
    \/ \E name \in Names : create_new_dashboard(name)
    \/ \E name \in Names : rename_dashboard(name)
    \/ delete_dashboard
    \/ add_chart_to_dashboard
    \/ \E i \in 1..3 : remove_chart(i)

DashSpec == DashInit /\ [][DashNext]_vars

----------------------------------------------------------------------------
(* The loads of a user who has preferences and saved work, on files of every
   kind load_file_async tells apart, with the sampling size in the user's
   hands: no integer, a negative one, or the number of rows the chunked read
   keeps *)

(* A CSV file over 100 MB of more rows than the chunked read keeps *)
LargeCsv ==
    LET n == (MaxChunks + 1) * ChunkSize + MaxExcess
    IN  [File(".csv", TwoColumnFrame(S("int64", MaxUnique, FALSE, n),
                                     S("int64", MaxUnique, FALSE, n)))
            EXCEPT !.bytes = "large"]

(* A sheet of more rows than the default sampling size *)
Sheet ==
    LET n == DefaultSamplingSize + MaxExcess
    IN  File(".xlsx", TwoColumnFrame(T(MaxUnique, TRUE, n, n + MaxExcess),
                                     S("int64", MaxUnique, FALSE, n)))

(* A Parquet file of DaskCutoff rows *)
LargeParquet ==
    File(".parquet", TwoColumnFrame(S("int64", None, FALSE, DaskCutoff),
                                    S("int64", None, FALSE, DaskCutoff)))

(* A file read_csv cannot parse *)
Unreadable == [File(".csv", SeedFrame) EXCEPT !.bytes = "unreadable"]

LoadFiles == {File(".csv", SeedFrame), Sheet, LargeCsv, LargeParquet, Unreadable}

(* Table user_preferences: no row, or the row save_preferences (lines
   1095-1121) wrote when the seed file was last open *)
StoredPreferences == {NoPreferences, Saved(File(".csv", SeedFrame), "a", "b", "line")}

(* Table saved_work: a chart of the seed file saved by save_work *)
SavedWork == {Saved(File(".csv", SeedFrame), "b", "b", "bar")}

LoadInit ==
    /\ Constructed
    /\ files = LoadFiles
    /\ LoadedDashboards(<<>>)
    /\ \E prefs \in StoredPreferences : load_preferences(prefs, files)

LoadNext ==
    \/ \E file \in files : load_file_async(file)
    \/ load_file_async_generate_chart
    \/ update_column_comboboxes_x
    \/ update_column_comboboxes_y
    \/ \E text \in {"all", "-1", "510000"} : set_sampling_var(text)
    \/ \E work \in SavedWork : load_selected_work(work)
    \/ load_selected_work_thread
    \/ load_selected_work_x
    \/ load_selected_work_y

LoadSpec == LoadInit /\ [][LoadNext]_vars

----------------------------------------------------------------------------
(* The same files in the hands of a user who leaves the sampling size at its
   default, or types no integer, picks chart types and generates charts of
   the columns update_column_comboboxes selects *)

DefaultInit ==
    /\ Fresh
    /\ files \in {{File(".csv", SeedFrame), Sheet}, {LargeCsv}, {LargeParquet}}

DefaultNext ==
    \/ \E file \in files : load_file_async(file)
    \/ load_file_async_generate_chart
    \/ update_column_comboboxes_x
    \/ update_column_comboboxes_y
    \/ clear_data
    \/ generate_chart_button
    \/ \E ct \in ChartTypes : select_chart_type(ct)
    \/ set_sampling_var("all")

DefaultSpec == DefaultInit /\ [][DefaultNext]_vars

----------------------------------------------------------------------------
(* Vocabulary of the properties *)

(* The last recommend_chart_type call reached self.chart_type.set, line 1436 *)
Ran == call.outcome = "set"

(* The classification of section 4.1: datetime, then numeric, else categorical *)
Kind(s) ==
    IF is_datetime64_any_dtype(s) THEN "datetime"
    ELSE IF is_numeric_dtype(s) THEN "numeric"
    ELSE "categorical"

XKind == Kind(call.x_series)

YKind == Kind(call.y_series)

(* The inputs recommend_chart_type can be given: every column pair of every
   file that can be on disk, every sample of a Dask handle, and the pair the
   last call was given *)
ValidProfiles ==
    UNION {{Profile(f.series[x], f.series[y]) : x \in Range(f.columns), y \in Range(f.columns)} :
           f \in Frames \cup UNION {Samples(dk) : dk \in DaskFrames}}
    \cup (IF call.outcome \in {"set", "TypeError"} THEN {call.p} ELSE {})

----------------------------------------------------------------------------
(* C1: whenever recommend_chart_type runs on a datetime X column and a
   numeric Y column it sets the chart type to line, whatever the row count,
   the number of distinct X values and the monotonicity of X. *)
C1_DatetimeNumericIsLine ==
    (call.outcome \in {"set", "TypeError"} /\ XKind = "datetime" /\ YKind = "numeric")
        => (Ran /\ call.r.recommendation = "line" /\ chart_type = "line")

C1_Witness ==
    /\ Ran /\ XKind = "datetime" /\ YKind = "numeric"
    /\ call.p.total_points > PieOverrideLimit
    /\ call.x_series.nunique > HistogramUniqueLimit
    /\ ~call.x_series.is_monotonic_increasing
    /\ chart_type = "line"

(* C2: a categorical X column of at most 5 distinct values with a numeric Y
   column and at most 50 rows gives pie, and the reason shown cites the
   number of categories. *)
C2_FewCategoriesIsPie ==
    (call.outcome \in {"set", "TypeError"} /\ XKind = "categorical" /\ YKind = "numeric"
        /\ call.x_series.nunique <= 5 /\ call.p.total_points <= 50)
        => /\ Ran
           /\ chart_type = "pie"
           /\ recommend_label = Label("pie", "{x_unique} categories, good for comparison",
                                      call.x_series.nunique)

C2_Witness ==
    /\ Ran /\ XKind = "categorical" /\ YKind = "numeric"
    /\ call.x_series.nunique = 4 /\ call.p.total_points = 30
    /\ chart_type = "pie"
    /\ recommend_label.n = 4

(* C3: no call on more than 100 rows gives pie; a categorical X column of at
   most 5 distinct values with a numeric Y column gives bar there. *)
C3_NoPieAbove100 ==
    (call.outcome \in {"set", "TypeError"} /\ call.p.total_points > 100)
        => /\ Ran
           /\ call.r.recommendation # "pie"
           /\ chart_type # "pie"
           /\ (XKind = "categorical" /\ YKind = "numeric" /\ call.x_series.nunique <= 5)
                 => chart_type = "bar"

C3_Witness ==
    /\ Ran /\ XKind = "categorical" /\ YKind = "numeric"
    /\ call.x_series.nunique <= 5 /\ call.p.total_points > 100
    /\ chart_type = "bar"

(* C4 as stated: for a categorical X column of at most 5 distinct values, a
   numeric Y column and more than 100 rows, bar is produced by the pie
   override and the reason shown is the override's. *)
C4_Original ==
    (Ran /\ XKind = "categorical" /\ YKind = "numeric"
        /\ call.x_series.nunique <= 5 /\ call.p.total_points > 100)
        => /\ call.r.branch = "1429"
           /\ recommend_label.reason = "Too many points for pie chart (use for <100 points)"

(* C4 as amended: there bar is produced by rule 2's own branch for more than
   50 rows, with that branch's reason; the cascade never yields pie above 50
   rows, so the pie override decides no call. *)
C4_BarByRule2 ==
    /\ call.r.branch # "1429"
    /\ (call.outcome \in {"set", "TypeError"} /\ XKind = "categorical" /\ YKind = "numeric"
           /\ call.x_series.nunique <= 5 /\ call.p.total_points > 100)
         => /\ Ran
            /\ call.r.branch = "1402"
            /\ recommend_label = Label("bar", "{x_unique} categories (too many points for pie)",
                                       call.x_series.nunique)

C4_Witness ==
    /\ Ran /\ XKind = "categorical" /\ YKind = "numeric"
    /\ call.x_series.nunique = 5 /\ call.p.total_points = 101
    /\ call.r.branch = "1402"

(* C5: two numeric columns give line when X is monotonic increasing and
   scatter when it is not, whatever the row count and the number of distinct
   Y values. *)
C5_NumericPair ==
    (call.outcome \in {"set", "TypeError"} /\ XKind = "numeric" /\ YKind = "numeric")
        => /\ Ran
           /\ chart_type = IF call.x_series.is_monotonic_increasing THEN "line" ELSE "scatter"

C5_Witness ==
    /\ Ran /\ XKind = "numeric" /\ YKind = "numeric"
    /\ ~call.x_series.is_monotonic_increasing
    /\ call.p.total_points > 100
    /\ chart_type = "scatter"

(* The ordered rule list of section 4.2 of the specification, over the kinds
   of section 4.1, first match winning, and its two overrides *)
SpecRules(kx, ky, dx, dy, mono, total) ==
    IF kx = "datetime" /\ ky = "numeric" THEN "line"
    ELSE IF kx = "categorical" /\ ky = "numeric"
         THEN IF dx <= 7
              THEN IF total <= 50 THEN (IF dx <= 5 THEN "pie" ELSE "bar") ELSE "bar"
              ELSE "bar"
    ELSE IF kx = "numeric" /\ ky = "numeric" THEN (IF mono THEN "line" ELSE "scatter")
    ELSE IF kx = "numeric" /\ ky = "categorical" THEN "box"
    ELSE IF dy <= 5 /\ kx = "numeric" THEN "box"
    ELSE IF ky = "numeric" /\ dx > 20 THEN "histogram"
    ELSE "bar"

SpecOverrides(t, ky, total) ==
    IF t = "pie" /\ total > 100 THEN "bar"
    ELSE IF t = "histogram" /\ ky # "numeric" THEN "bar"
    ELSE t

SpecRecommend ==
    SpecOverrides(SpecRules(XKind, YKind, call.x_series.nunique, call.y_series.nunique,
                            call.x_series.is_monotonic_increasing, call.p.total_points),
                  YKind, call.p.total_points)

(* C6 as stated: the chart type chosen by the if/elif chain equals the result
   of the specification's rules 1-7 followed by the two overrides. *)
C6_Original == Ran => chart_type = SpecRecommend

(* C6 as amended: they are equal except for a numeric X column with a
   datetime Y column of more than 5 distinct values, where the code's rule 4,
   which tests that Y is not numeric, gives box and the specification's
   rules, whose rule 4 asks for a categorical Y, give the default bar. *)
C6_EqualsSpecRulesExceptDatetimeY ==
    (call.outcome \in {"set", "TypeError"} /\ call.p.total_points >= 1)
        => /\ Ran
           /\ IF XKind = "numeric" /\ YKind = "datetime" /\ call.y_series.nunique > 5
              THEN chart_type = "box" /\ SpecRecommend = "bar"
              ELSE chart_type = SpecRecommend

C6_Witness ==
    /\ Ran /\ XKind = "categorical" /\ YKind = "numeric"
    /\ call.x_series.nunique \in 6..7 /\ call.p.total_points <= 50
    /\ chart_type = "bar" /\ SpecRecommend = "bar"

(* C7: a call on columns that are present never raises and sets the chart
   type to one of the six types; x_unique, None for a numeric X column, is
   compared on no path a numeric X column takes (those end in rule 3 or 4);
   a pair matching none of rules 1-6 ends at the default bar. *)
C7_NeverRaises ==
    /\ call.outcome # "TypeError"
    /\ (data # NoFrame /\ x_column \in Range(data.columns) /\ y_column \in Range(data.columns))
         => Ran
    /\ Ran => /\ chart_type \in ChartTypes
              /\ chart_type = call.r.recommendation
              /\ (call.p.x_unique = None) => call.r.branch \in {"1409", "1412", "1415"}
              /\ (XKind # "numeric" /\ YKind # "numeric")
                    => (chart_type = "bar" /\ call.r.branch = "1424")

C7_Witness ==
    /\ Ran /\ call.p.x_unique = None /\ YKind # "numeric"
    /\ data # NoFrame /\ x_column \in Range(data.columns) /\ y_column \in Range(data.columns)
    /\ chart_type = "box"

(* C8 as stated: some valid input makes recommend_chart_type return
   histogram. *)
C8_Original ==
    \E p \in ValidProfiles :
        Decide(p).raised = "none" /\ Decide(p).recommendation = "histogram"

(* C8 as amended: no input makes recommend_chart_type return histogram: a
   pair with a numeric Y column is always claimed by rule 1, 2 or 3, also
   with more than 20 distinct X values, so rule 6 decides no call. *)
C8_NeverHistogram ==
    /\ call.r.recommendation # "histogram"
    /\ call.r.rule \notin {"6", "histogram override"}
    /\ (call.outcome \in {"set", "TypeError"} /\ YKind = "numeric")
         => (Ran /\ call.r.rule \in {"1", "2", "3"})

C8_Witness ==
    /\ Ran /\ YKind = "numeric" /\ XKind = "categorical"
    /\ call.x_series.nunique > 20
    /\ call.r.rule = "2" /\ chart_type = "bar"

(* C9 as stated: some valid input with a numeric X column and at most 5
   distinct Y values is decided by rule 5. *)
C9_Original ==
    \E p \in ValidProfiles :
        p.x_is_num /\ p.y_cardinality <= 5 /\ Decide(p).branch = "1418"

(* C9 as amended: rule 5 decides no call: a numeric X column is always
   claimed by rule 3 or rule 4, and with a non-numeric Y column of at most 5
   distinct values it is rule 4 that yields box, with rule 4's reason. *)
C9_Rule5NeverDecides ==
    /\ call.r.rule # "5"
    /\ (call.outcome \in {"set", "TypeError"} /\ XKind = "numeric")
         => (Ran /\ call.r.rule \in {"3", "4"})
    /\ (call.outcome \in {"set", "TypeError"} /\ XKind = "numeric" /\ YKind # "numeric"
           /\ call.y_series.nunique <= 5)
         => recommend_label = Label("box", "Numerical X with categorical Y", None)

C9_Witness ==
    /\ Ran /\ XKind = "numeric" /\ YKind # "numeric"
    /\ call.y_series.nunique <= 5
    /\ call.r.rule = "4" /\ chart_type = "box"

(* C10 as stated: over any two successive calls that set a recommendation,
   the reason template is the same exactly when the deciding branch is the
   same. *)
C10_Original ==
    [][(Ran /\ call'.outcome = "set")
         => ((call.r.branch = call'.r.branch) <=> (call.r.reason = call'.r.reason))]_vars

ReasonOfBranch(b) ==
    CASE b = "1394" -> "Time series data detected"
      [] b \in {"1399:pie", "1399:bar"} -> "{x_unique} categories, good for comparison"
      [] b = "1402" -> "{x_unique} categories (too many points for pie)"
      [] b = "1405" -> "Many categories ({x_unique}), best for comparisons"
      [] b = "1409" -> "Ordered numerical data"
      [] b = "1412" -> "Two numerical variables, shows correlation"
      [] b = "1415" -> "Numerical X with categorical Y"
      [] b = "1418" -> "Limited Y categories, shows distribution"
      [] b = "1421" -> "Many unique X values, show distribution"
      [] b = "1424" -> "Default recommendation"
      [] b = "1429" -> "Too many points for pie chart (use for <100 points)"
      [] b = "1433" -> "Histogram requires numerical Y-axis"
      [] OTHER -> ""

RuleOfReason(t) ==
    CASE t = "Time series data detected" -> "1"
      [] t \in {"{x_unique} categories, good for comparison",
                "{x_unique} categories (too many points for pie)",
                "Many categories ({x_unique}), best for comparisons"} -> "2"
      [] t \in {"Ordered numerical data", "Two numerical variables, shows correlation"} -> "3"
      [] t = "Numerical X with categorical Y" -> "4"
      [] t = "Limited Y categories, shows distribution" -> "5"
      [] t = "Many unique X values, show distribution" -> "6"
      [] t = "Default recommendation" -> "7"
      [] t = "Too many points for pie chart (use for <100 points)" -> "pie override"
      [] t = "Histogram requires numerical Y-axis" -> "histogram override"
      [] OTHER -> "none"

(* C10 as amended: the reason shown is the template of the branch that
   decided and it identifies the rule or override that decided, but not the
   branch: rule 2 has three templates, rule 3 two, and the pie and the bar
   outcome of line 1399 share one. *)
C10_ReasonIdentifiesRule ==
    Ran => /\ recommend_label.reason = call.r.reason
           /\ call.r.reason = ReasonOfBranch(call.r.branch)
           /\ call.r.rule = RuleOfReason(call.r.reason)

C10_Witness ==
    /\ Ran /\ call.r.branch = "1399:bar"
    /\ recommend_label.reason = "{x_unique} categories, good for comparison"
    /\ call.r.rule = "2"

----------------------------------------------------------------------------
(* Vocabulary of the error properties *)

(* The outcomes of recommend_chart_type that reach its caller as an error: a
   KeyError is caught at line 1439 and nothing else is raised on purpose *)
ReportedErrors == {"TypeError", "ColumnNotFound", "EmptyDataset"}

(* A selected column is not a column of the loaded frame *)
MissingColumn ==
    /\ data # NoFrame
    /\ x_column # "" /\ y_column # ""
    /\ (x_column \notin Range(data.columns) \/ y_column \notin Range(data.columns))

(* C11 as stated: when a selected column is not a column of the loaded
   dataset the recommendation step ends in an error outcome reported to the
   caller and recommends nothing. *)
C11_Original ==
    MissingColumn => (call.outcome \in ReportedErrors /\ call.r.recommendation = "")

(* C11 as amended: every step that ends with a selected column missing from
   the loaded frame has had recommend_chart_type end silently on the caught
   KeyError: nothing is reported, nothing is recommended and the chart type
   and the recommendation label keep the values they had before the step. *)
C11_KeyErrorIsSilent ==
    [][MissingColumn' =>
          /\ call'.outcome = "KeyError"
          /\ call'.r.recommendation = ""
          /\ chart_type' = chart_type
          /\ recommend_label' = recommend_label]_vars

C11_Witness ==
    /\ MissingColumn
    /\ call.outcome = "KeyError"
    /\ recommend_label.recommendation # ""

(* C12 as stated: when the loaded dataset has zero rows the recommendation
   step ends in an EmptyDataset error outcome and recommends nothing. *)
C12_Original ==
    (data # NoFrame /\ data.rows = 0)
        => (call.outcome \in ReportedErrors /\ call.r.recommendation = "")

(* C12 as amended: on a dataset of zero rows recommend_chart_type reports no
   error.  A file without rows has lost its columns, and the call ends at the
   prompt for the axes or on the caught KeyError, recommending nothing; a
   dataset emptied by a sampling size of 0 keeps its columns, and the cascade
   runs on the empty columns with total_points = 0. *)
C12_NoEmptyDatasetError ==
    (data # NoFrame /\ data.rows = 0)
        => /\ call.outcome \notin ReportedErrors
           /\ data.columns = <<>> => call.outcome \in {"no axes", "KeyError"}
           /\ call.outcome = "set" => (data.columns # <<>> /\ call.p.total_points = 0)

C12_Witness ==
    /\ data # NoFrame /\ data.rows = 0
    /\ Ran /\ call.p.total_points = 0 /\ XKind = "categorical"
    /\ chart_type = "pie" /\ recommend_label.n = 0

----------------------------------------------------------------------------
(* Vocabulary of the rendering properties *)

(* A generate_chart of the window or of a card got as far as the if/elif
   chain over the chart type, and the chain handed a frame to the plotter *)
Reduced == render.outcome \in {"drawn", "error"} /\ render.input # NoFrame

HandedOver == Reduced /\ render.plot.raised = "none"

(* C13: generate_chart called with the X or the Y column unset returns before
   any effect: the figure is not cleared, nothing is handed to the plotter
   and no row is written to the visualizations table; with data loaded the
   rejection is the missing-axes warning. *)
C13_MissingAxisRejected ==
    (render.by = "generate_chart" /\ (render.x_col = "" \/ render.y_col = ""))
        => /\ render.outcome \in {"no data", "no axes"}
           /\ ~render.cleared /\ ~render.logged
           /\ render.plot = NoPlot
           /\ (data # NoFrame \/ dask_data # NoFrame)
                 => (render.outcome = "no axes"
                     /\ render.message = "Please select X and Y columns")

C13_Witness ==
    /\ render.by = "generate_chart" /\ render.outcome = "no axes"
    /\ data # NoFrame /\ x_column = "" /\ ~render.cleared /\ ~render.logged

(* C14: for bar, scatter and box the plotter is handed all n rows when n is
   at most 10,000 / 5,000 / 10,000 and exactly 1,000 / 2,000 / 5,000 rows
   when n is larger. *)
C14_SampledAboveThreshold ==
    LET ct == render.chart_type
        n == render.input.rows
        threshold == CASE ct = "bar" -> 10000 [] ct = "scatter" -> 5000 [] OTHER -> 10000
        size == CASE ct = "bar" -> 1000 [] ct = "scatter" -> 2000 [] OTHER -> 5000
    IN  (HandedOver /\ ct \in {"bar", "scatter", "box"})
            => render.plot.rows = IF n > threshold THEN size ELSE n

C14_Witness ==
    /\ HandedOver /\ render.outcome = "drawn" /\ render.chart_type = "scatter"
    /\ render.input.rows = 5001 /\ render.plot.rows = 2000

(* C15: for a line chart over an X column of the frame, the daily-mean
   resample branch is taken exactly when the frame has more than 10,000 rows
   and the X column is datetime-typed; otherwise the frame is handed to the
   plotter unchanged. *)
C15_LineResampleIffLargeDatetime ==
    LET d == render.input
        x_col == render.x_col
        large_datetime == d.rows > 10000 /\ d.series[x_col].dtype = "datetime64[ns]"
        resampled == render.plot.strategy = "resample" \/ render.plot.raised = "TypeError"
    IN  (Reduced /\ render.chart_type = "line" /\ x_col \in Range(d.columns))
            => /\ resampled <=> large_datetime
               /\ render.plot.strategy = "resample"
                     => (render.plot.rows = d.series[x_col].days
                         /\ Head(render.plot.frame.columns) = x_col)
               /\ ~large_datetime => (render.plot.raised = "none" /\ render.plot.frame = d)

C15_Witness ==
    /\ Reduced /\ render.chart_type = "line" /\ render.outcome = "drawn"
    /\ render.input.rows > 10000 /\ render.plot.strategy = "resample"

(* C16: a histogram is handed the whole Y column, as many rows as the frame
   has, with 50 bins when the frame has more than 10,000 rows and 20
   otherwise. *)
C16_HistogramBins ==
    (HandedOver /\ render.chart_type = "histogram")
        => /\ render.plot.rows = render.input.rows
           /\ render.plot.frame.columns = <<render.y_col>>
           /\ render.plot.bins = IF render.input.rows > 10000 THEN 50 ELSE 20

C16_Witness ==
    /\ HandedOver /\ render.chart_type = "histogram" /\ render.outcome = "drawn"
    /\ render.input.rows = 10000 /\ render.plot.bins = 20

(* C17: a pie is handed the N groups of X with the largest summed Y, largest
   first, N being 8 when the frame has more than 1,000 rows and 10 otherwise;
   the other groups are left out and no group is added. *)
C17_PieTopGroups ==
    LET N == IF render.input.rows > 1000 THEN 8 ELSE 10
        groups == render.plot.groups
        pie == render.plot.pie_data
        kept == {pie[i].key : i \in DOMAIN pie}
    IN  (HandedOver /\ render.chart_type = "pie")
            => /\ Len(pie) = Min(N, Len(groups))
               /\ \A i \in DOMAIN pie : \E j \in DOMAIN groups : pie[i] = groups[j]
               /\ \A i, j \in DOMAIN pie : i < j =>
                     (pie[i].total >= pie[j].total /\ pie[i].key # pie[j].key)
               /\ \A j \in DOMAIN groups : groups[j].key \notin kept =>
                     \A i \in DOMAIN pie : pie[i].total >= groups[j].total

C17_Witness ==
    /\ HandedOver /\ render.chart_type = "pie" /\ render.outcome = "drawn"
    /\ render.input.rows = 1001
    /\ Len(render.plot.groups) > 8 /\ Len(render.plot.pie_data) = 8

(* C18 as stated: for bar, line, scatter and box, applying the reduction to
   its own output yields no more rows than the chart type's threshold
   (10,000 / 10,000 / 5,000 / 10,000) and no more rows than the first
   application yielded. *)
C18_Original ==
    LET ct == render.chart_type
        threshold == IF ct = "scatter" THEN 5000 ELSE 10000
    IN  (HandedOver /\ ct \in {"bar", "line", "scatter", "box"})
            => \A env \in EnvsOf(ct) :
                  LET again == Reduction(ct, render.plot.frame, render.x_col, render.y_col, env)
                  IN  /\ again.raised = "none"
                      /\ again.rows <= threshold
                      /\ again.rows <= render.plot.rows

(* C18 as amended: the second application never raises and never yields more
   rows than the first; for bar, scatter and box its output is within the
   threshold; for line it exceeds 10,000 rows exactly in two cases, an X
   column that is not datetime-typed on a frame of more than 10,000 rows,
   handed over unchanged, and a datetime X column spanning more than 10,000
   days, resampled to one row a day. *)
C18_SecondReductionKeepsRows ==
    LET ct == render.chart_type
        d == render.input
        threshold == IF ct = "scatter" THEN 5000 ELSE 10000
    IN  (HandedOver /\ ct \in {"bar", "line", "scatter", "box"})
            => \A env \in EnvsOf(ct) :
                  LET again == Reduction(ct, render.plot.frame, render.x_col, render.y_col, env)
                  IN  /\ again.raised = "none"
                      /\ again.rows <= render.plot.rows
                      /\ ct # "line" => again.rows <= threshold
                      /\ (ct = "line" /\ again.rows > threshold)
                            <=> /\ ct = "line"
                                /\ d.rows > threshold
                                /\ \/ d.series[render.x_col].dtype # "datetime64[ns]"
                                   \/ d.series[render.x_col].days > threshold

C18_Witness ==
    /\ HandedOver /\ render.chart_type = "line" /\ render.plot.strategy = "resample"
    /\ render.plot.rows > 10000
    /\ \A env \in EnvsOf("line") :
          Reduction("line", render.plot.frame, render.x_col, render.y_col, env).rows
              = render.plot.rows

(* C19: whatever the chart type, the plotter is handed no more rows, daily
   buckets or groups than the frame has rows. *)
C19_Original ==
    HandedOver
        => /\ render.plot.rows <= render.input.rows
           /\ Len(render.plot.pie_data) <= render.input.rows

(* C20: no call of generate_chart, of the window or of a card, and no call
   of recommend_chart_type from a selection changes self.data or
   self.dask_data: a step that ends with a chart request served, or that
   changes a selected column while data stay loaded, leaves both as they
   were, on either side of every threshold. *)
C20_SourceDataUnchanged ==
    [][(\/ render'.by # "none"
        \/ /\ (x_column' # x_column \/ y_column' # y_column)
           /\ (data' # NoFrame \/ dask_data' # NoFrame))
          => (data' = data /\ dask_data' = dask_data)]_vars

C20_Witness ==
    /\ HandedOver /\ render.outcome = "drawn" /\ render.chart_type = "line"
    /\ render.plot.strategy = "resample"
    /\ render.plot.frame # data /\ render.plot.self_data = data /\ render.input = data

----------------------------------------------------------------------------
(* Loads and the UI thread *)

(* C21: while a load_file_async thread is between its start and its end, no
   step of the UI thread runs recommend_chart_type or generate_chart, takes a
   queued callback or changes a selection, and no other load starts: every
   step taken while the thread is in flight, other than the thread's own last
   step, leaves the call record, the selections, the chart request, the queue
   and the position of the UI thread as they were. *)
C21_Original ==
    [][(loading # "idle" /\ loading' # "idle")
          => UNCHANGED <<call, x_column, y_column, chart_type, render, pending, ui, data,
                         dask_data>>]_vars

----------------------------------------------------------------------------
(* Dashboards *)

(* C22: with a dashboard selected and data loaded, add_chart_to_dashboard
   makes one chart_config of the current selections, appends it to the layout
   of the current dashboard, leaving the entries before it as they were, and
   stores the new layout in table dashboards. *)
C22_Original ==
    (op.name = "add_chart_to_dashboard" /\ op.arg.dashboard # NoDashboard /\ op.arg.data)
        => /\ current_dashboard.layout
                 = Append(op.arg.dashboard.layout, op.arg.chart_config)
           /\ \E i \in DOMAIN dashboards :
                 /\ dashboards[i].id = current_dashboard.id
                 /\ dashboards[i].layout = current_dashboard.layout

(* C23: remove_chart(card) takes exactly the card's chart_config out of the
   layout: one entry fewer, and every other entry, equal to the removed one or
   not, stays in its order. *)
C23_Original ==
    op.name = "remove_chart"
        => LET before == op.arg.dashboard.layout
               after == current_dashboard.layout
           IN  /\ Len(after) = Len(before) - 1
               /\ \E k \in DOMAIN before :
                     /\ before[k] = op.arg.chart_config
                     /\ after = SubSeq(before, 1, k - 1) \o SubSeq(before, k + 1, Len(before))

(* C28: whenever current_dashboard is set, the selector shows its name. *)
C28_Original ==
    current_dashboard # NoDashboard => dashboard_var = current_dashboard.name

----------------------------------------------------------------------------
(* Loading *)

(* The sampling size a load works with, as the entry stands when it starts *)
SizeOf(text) == IF IsInteger(text) THEN int(text) ELSE 10000

(* A step in which load_file_async gets through process_loaded_data *)
LoadCompletes == loading # "generate_chart:1210" /\ loading' = "generate_chart:1210"

(* The rows the read keeps of a file: all of them, or the first 510,000 of a
   CSV file over 100 MB *)
RowsKept(file) ==
    IF file.ext = ".csv" /\ file.bytes = "large" /\ file.frame.rows > 510000 THEN 510000
    ELSE file.frame.rows

(* C24 as stated: after a load that completes without error with sampling
   size S, the in-memory dataset has at most S rows and large_dataset is true
   exactly when the file had more than S rows *)
C24_Original ==
    [][LoadCompletes
          => /\ data' # NoFrame => data'.rows <= SizeOf(sampling_var)
             /\ large_dataset' <=> (loaded'.file.frame.rows > SizeOf(sampling_var))]_vars

(* C24: after a load that completes without error with sampling size S, of a
   file other than a Parquet file of 500,000 rows or more, the in-memory
   dataset has at most S rows and large_dataset is true exactly when more
   than S rows were read, all rows of the file or the first 510,000 of a CSV
   file over 100 MB; after a load of a Parquet file of 500,000 rows or more
   there is no in-memory dataset, the Dask handle is set and large_dataset is
   true whatever S *)
C24_SampledToSizeOfRowsRead ==
    [][LoadCompletes
          => LET file == loaded'.file
             IN  IF file.ext = ".parquet" /\ file.frame.rows >= 500000
                 THEN data' = NoFrame /\ dask_data' = file.frame /\ large_dataset'
                 ELSE /\ data' # NoFrame
                      /\ data'.rows <= SizeOf(sampling_var)
                      /\ large_dataset' <=> (RowsKept(file) > SizeOf(sampling_var))]_vars

(* A CSV file over 100 MB of more than 510,000 rows has been loaded with
   sampling size 510,000: the 510,000 rows read are all kept and
   large_dataset is false *)
C24_Witness ==
    /\ loading = "generate_chart:1210"
    /\ loaded.outcome = "ok"
    /\ loaded.file.bytes = "large"
    /\ loaded.file.frame.rows > 510000
    /\ sampling_var = "510000"
    /\ data.rows = 510000
    /\ ~large_dataset

(* C26 as stated: when load_file_async fails, the dataset, the Dask handle,
   the column list, the numeric column list, the current file path and
   large_dataset keep the values they had before the load *)
C26_Original ==
    [][(loaded' # loaded /\ loaded'.outcome \notin {"ok", "none"})
          => UNCHANGED <<data, dask_data, columns, numeric_columns, current_file_path,
                         large_dataset>>]_vars

(* C27 as stated: after load_selected_work on a saved item whose file exists,
   once the background load has finished and the callbacks it queued have
   run, the X column, the Y column and the chart type are those of the saved
   item *)
C27_Original ==
    (/\ op.name = "load_selected_work"
     /\ op.outcome = "started"
     /\ loaded.outcome = "ok"
     /\ loaded.file = op.arg.file_path
     /\ loading = "idle"
     /\ ui = "idle"
     /\ pending = 0)
        => /\ x_column = op.arg.x_column
           /\ y_column = op.arg.y_column
           /\ chart_type = op.arg.chart_type

(* C29 as stated: when load_preferences has run on a row whose file exists,
   and nothing has been loaded since, that file is the dataset, the saved
   columns are selected where the file has them, and the chart is generated *)
C29_Original ==
    (/\ op.name = "load_preferences"
     /\ op.arg.file_path \in files
     /\ loaded = NotLoaded)
        => /\ current_file_path = op.arg.file_path
           /\ data = Read(op.arg.file_path)
           /\ op.arg.x_column \in Range(columns) => x_column = op.arg.x_column
           /\ op.arg.y_column \in Range(numeric_columns) => y_column = op.arg.y_column
           /\ render.outcome = "drawn"

----------------------------------------------------------------------------
(* The default sampling size and the two renderers *)

(* C25: with the sampling size at its default of 10,000, no chart is made of
   more than 10,000 rows, so no branch for more than 10,000 rows is taken: a
   bar or box chart is never sampled, a line chart never resampled by day,
   and a histogram never has 50 bins *)
C25_NoLargeBranchAtDefault ==
    render.input # NoFrame
        => /\ render.input.rows <= 10000
           /\ render.plot.strategy # "resample"
           /\ render.chart_type \in {"bar", "box"} => render.plot.strategy # "sample"
           /\ render.plot.bins # 50

(* A bar chart of a file of more than 10,000 rows has been drawn from the
   10,000 rows the load kept, all of them *)
C25_Witness ==
    /\ render.by = "generate_chart"
    /\ render.outcome = "drawn"
    /\ render.chart_type = "bar"
    /\ loaded.rows > 10000
    /\ render.input.rows = 10000
    /\ render.plot.strategy = "none"
    /\ render.plot.rows = 10000

(* C30 as stated: for the dataset that is loaded, held in memory or only as
   a Dask handle, and every ChartConfig, the card renderer and the
   single-chart renderer decide alike: both find a dataset to draw or neither
   does, and they hand the same reduction to the plot, with the same
   strategy, the same number of rows, the same bin count and the same
   category limit *)
C30_Original ==
    (data # NoFrame \/ dask_data # NoFrame)
        => \A cfg \in ChartConfigs : \A env \in EnvsOf(cfg.chart_type) :
           \A sample \in (IF data # NoFrame THEN {NoFrame}
                          ELSE RenderSamples(dask_data) \cup {NoFrame}) :
              LET card == DashboardChartCard_generate_chart(data, cfg, env)
                  single == generate_chart(data, dask_data, sample, cfg.x_column, cfg.y_column,
                                           cfg.chart_type, env)
              IN  /\ (card.outcome = "no data") <=> (single.outcome = "no data")
                  /\ card.plot.strategy = single.plot.strategy
                  /\ card.plot.rows = single.plot.rows
                  /\ card.plot.bins = single.plot.bins
                  /\ card.plot.top_categories = single.plot.top_categories

====
